---- MODULE Spec2Model ----
(***************************************************************************)
(* Model of aio_sf_streaming/mixins.py: the five mixins (TimeoutAdvice,    *)
(* AutoVersion, Replay, AutoReconnect, ReSubscribe) and their composition  *)
(* AllMixin over a base streaming client.                                  *)
(*                                                                         *)
(* Everything runs on one asyncio event loop, so the code between two      *)
(* awaits is one atomic step.  Each action below is one such step of one   *)
(* coroutine: the caller's coroutine, the coroutine that consumes          *)
(* messages(), or a task made with loop.create_task.  The base client, the *)
(* replay store callbacks and the discovery resource are the environment:  *)
(* what they answer is chosen with \E from small sets.                     *)
(*                                                                         *)
(* Optional JSON members are sequences of length 0 (absent) or 1 (present) *)
(* so that every value of a field has one TLA+ type.                       *)
(***************************************************************************)
EXTENDS Integers, Sequences, FiniteSets, Bags, TLC

\* ------------------------------------------------------------------ bounds
\* Frames the base client produces in one behaviour of the message stream.
MaxFrames == 3
\* Operations the caller starts plus frames the base client produces in one
\* behaviour of the composed client.
MaxEvents == 4
\* Inner subscribe calls one subscribe()/resubscription makes at most.
MaxTries == 2

\* ------------------------------------------------------------- JSON values
None == <<>>
Some(v) == <<v>>

\* str.startswith
StartsWith(s, prefix) ==
    /\ Len(s) >= Len(prefix)
    /\ SubSeq(s, 1, Len(prefix)) = prefix

\* a Protocol Frame: channel, and the optional members error, advice
\* (with its optional timeout) and data.event (replayId, createdDate)
Frame(channel, error, advice, event) ==
    [channel |-> channel, error |-> error, advice |-> advice, event |-> event]
Advice(timeout) == [timeout |-> timeout]
Event(replayId, createdDate) == [replayId |-> replayId, createdDate |-> createdDate]

UnknownClient == "403::Unknown client"

\* /meta/connect answers with the server's advice
ConnectOk        == Frame("/meta/connect", None, Some(Advice(Some(110000))), None)
ConnectOdd       == Frame("/meta/connect", None, Some(Advice(Some(1500))), None)
ConnectZero      == Frame("/meta/connect", None, Some(Advice(Some(0))), None)
ConnectNoTimeout == Frame("/meta/connect", None, Some(Advice(None)), None)
ConnectNoAdvice  == Frame("/meta/connect", Some("401::Unauthorized"), None, None)
\* session invalidation, on /meta/connect and on another meta channel
ConnectUnknown   == Frame("/meta/connect", Some(UnknownClient), Some(Advice(Some(2000))), None)
MetaUnknown      == Frame("/meta/subscribe", Some(UnknownClient), None, None)
\* a meta channel other than /meta/connect that carries advice
MetaAdvice       == Frame("/meta/handshake", None, Some(Advice(Some(5000))), None)
\* application events
EventA           == Frame("/topic/A", None, None, Some(Event(77, "t1")))
EventB           == Frame("/event/B__e", Some(UnknownClient), Some(Advice(Some(7000))),
                          Some(Event(78, "t2")))

AllFrames ==
    { ConnectOk, ConnectOdd, ConnectZero, ConnectNoTimeout, ConnectNoAdvice,
      ConnectUnknown, MetaUnknown, MetaAdvice, EventA, EventB }

Channels == {"/topic/A", "/topic/B"}

\* ------------------------------------------- TimeoutAdviceMixin (l. 15-31)
\* Python's true division a / b, kept exact as a fraction
TrueDiv(a, b) == [num |-> a, den |-> b]

\* the value of self.timeout after the body of the loop has seen message
TimeoutAdviceTimeout(timeout, message) ==
    IF /\ message.channel = "/meta/connect"
       /\ message.advice # None
    THEN LET timeout_advice == message.advice[1].timeout
         IN  IF timeout_advice # None /\ timeout_advice[1] # 0
             THEN TrueDiv(timeout_advice[1], 1000)
             ELSE timeout
    ELSE timeout

\* ------------------------------------------------- ReplayMixin (l. 42-120)
\* variant: only the channels of push topics are stored
ReplayStoreCallsTopics(message) ==
    IF StartsWith(message.channel, "/topic/")
    THEN << [channel      |-> message.channel,
             replayId     |-> message.event[1].replayId,
             createdDate  |-> message.event[1].createdDate] >>
    ELSE << >>

\* the store_replay_id calls the body of the loop launches for message
ReplayStoreCalls(message) ==
    IF ~StartsWith(message.channel, "/meta/")
    THEN << [channel      |-> message.channel,
             replayId     |-> message.event[1].replayId,
             createdDate  |-> message.event[1].createdDate] >>
    ELSE << >>

\* -------------------------------------------- AutoReconnectMixin (l. 143-207)
\* variant: only /meta/connect is looked at
AutoReconnectAskedConnect(message) ==
    /\ message.channel = "/meta/connect"
    /\ message.error = Some(UnknownClient)

\* the test of messages(): the frame asks for a new handshake
AutoReconnectAsked(message) ==
    /\ StartsWith(message.channel, "/meta/")
    /\ message.error = Some(UnknownClient)

\* self._subchannels: None before start() and after stop(), else a set
NoSet == None
SetOf(S) == Some(S)

\* variant: the loop over the channels is left after its first turn
AutoReconnectResubscribedFirst(subs) ==
    IF subs[1] = {} THEN SetToBag({}) ELSE SetToBag({CHOOSE ch \in subs[1] : TRUE})

\* the bag of channels handshake() makes a resubscription task for
\* (iterating None raises TypeError: see AutoReconnectHandshakeRaises)
AutoReconnectResubscribed(subs) == SetToBag(subs[1])
AutoReconnectHandshakeRaises(subs) == subs = NoSet

\* set.add / set.remove on self._subchannels
SetAdd(subs, channel) == SetOf(subs[1] \cup {channel})
SetRemove(subs, channel) == SetOf(subs[1] \ {channel})
\* the exception unsubscribe() raises before it delegates, "" when none
AutoReconnectUnsubscribeError(subs, channel) ==
    IF subs = NoSet THEN "AttributeError"
    ELSE IF channel \notin subs[1] THEN "KeyError"
    ELSE ""
AutoReconnectSubscribeError(subs) ==
    IF subs = NoSet THEN "AttributeError" ELSE ""

\* ------------------------------------------------ ReplayType (l. 34-39)
ALL_EVENTS == -2
NEW_EVENTS == -1

\* what get_last_replay_id returns: None, a ReplayType member or an int
Nothing == [kind |-> "None", value |-> 0]
Member(v) == [kind |-> "ReplayType", value |-> v]
Cursor(c) == [kind |-> "int", value |-> c]

\* Python truth value: None and 0 are false, an Enum member is true
Truthy(x) ==
    CASE x.kind = "None" -> FALSE
      [] x.kind = "ReplayType" -> TRUE
      [] x.kind = "int" -> x.value # 0

\* the integer get_subscribe_payload puts in the payload (l. 68-75)
ReplayValue(returned) ==
    LET replay_id == IF ~Truthy(returned) THEN Member(NEW_EVENTS) ELSE returned
    IN  replay_id.value

\* a subscribe payload: the subscription and the optional ext, whose
\* optional replay member maps channels to integers
Payload(subscription, ext) == [subscription |-> subscription, ext |-> ext]
Ext(replay, other) == [replay |-> replay, other |-> other]

\* dict.setdefault on the optional members, then the assignment (l. 78-79)
ReplayPayload(payload, channel, returned) ==
    LET ext    == IF payload.ext = None THEN Ext(None, None) ELSE payload.ext[1]
        replay == IF ext.replay = None THEN << >> ELSE ext.replay[1]
        after  == [c \in DOMAIN replay \cup {channel} |->
                     IF c = channel THEN ReplayValue(returned) ELSE replay[c]]
    IN  [payload EXCEPT !.ext = Some([ext EXCEPT !.replay = Some(after)])]

\* ---------------------------------------------- AutoVersionMixin (l. 123-140)
\* JSON values the discovery resource may answer
JList(items) == [kind |-> "list", items |-> items]
JDict(version) == [kind |-> "dict", version |-> version]
JNull == [kind |-> "null"]
JStr(chars) == [kind |-> "str", items |-> chars]
JNum == [kind |-> "int"]

\* data[-1]['version']: the value, or the exception the expression raises
Got(v) == [exc |-> "", value |-> v]
Raised(e) == [exc |-> e, value |-> ""]
\* variant: data[0]['version']
FirstVersion(data) ==
    CASE data.kind = "list" ->
           IF Len(data.items) = 0 THEN Raised("IndexError")
           ELSE LET first == data.items[1]
                IN  CASE first.kind = "dict" ->
                           IF first.version = None THEN Raised("KeyError")
                           ELSE Got(first.version[1])
                      [] OTHER -> Raised("TypeError")
      [] data.kind = "dict" -> Raised("KeyError")
      [] data.kind = "str" ->
           IF Len(data.items) = 0 THEN Raised("IndexError") ELSE Raised("TypeError")
      [] OTHER -> Raised("TypeError")
LastVersion(data) ==
    CASE data.kind = "list" ->
           IF Len(data.items) = 0 THEN Raised("IndexError")
           ELSE LET last == data.items[Len(data.items)]
                IN  CASE last.kind = "dict" ->
                           IF last.version = None THEN Raised("KeyError")
                           ELSE Got(last.version[1])
                      [] OTHER -> Raised("TypeError")
      [] data.kind = "dict" -> Raised("KeyError")
      [] data.kind = "str" ->
           IF Len(data.items) = 0 THEN Raised("IndexError") ELSE Raised("TypeError")
      [] OTHER -> Raised("TypeError")

\* the except clause of handshake(): what it lets through, "" when nothing
AutoVersionError(data) ==
    IF LastVersion(data).exc \in {"", "IndexError", "KeyError"}
    THEN ""
    ELSE LastVersion(data).exc

\* self.version after the try statement
AutoVersionVersion(version, data) ==
    IF LastVersion(data).exc = "" THEN LastVersion(data).value ELSE version

\* ---------------------------------------------- ReSubscribeMixin (l. 210-237)
\* a result record of a subscribe response
Result(successful, ext) == [successful |-> successful, ext |-> ext]
Sfdc(reason) == Some([sfdc |-> Some([failureReason |-> reason])])

\* response[0].get('ext', {}).get('sfdc', {}).get('failureReason', '')
FailureReason(result) ==
    IF result.ext = None THEN ""
    ELSE IF result.ext[1].sfdc = None THEN ""
    ELSE IF result.ext[1].sfdc[1].failureReason = None THEN ""
    ELSE result.ext[1].sfdc[1].failureReason[1]

\* variant: every result record is looked at
ReSubscribeRetriesAny(response) ==
    \E i \in 1..Len(response) :
        /\ ~response[i].successful
        /\ StartsWith(FailureReason(response[i]), "SERVER_UNAVAILABLE")

\* one turn of the loop: TRUE when subscribe() sleeps and calls again,
\* FALSE when it returns response
ReSubscribeRetries(response) ==
    /\ ~(response = << >> \/ response[1].successful)
    /\ StartsWith(FailureReason(response[1]), "SERVER_UNAVAILABLE")

\* ------------------------------------------------ the layers of messages()
\* what each layer's generator yields for one frame of the layer below
AutoReconnectYields(message) ==
    IF AutoReconnectAsked(message) THEN << >> ELSE << message >>
\* variant: the yield sits inside the if statement
ReplayYieldsEvents(message) ==
    IF ~StartsWith(message.channel, "/meta/") THEN << message >> ELSE << >>
ReplayYields(message) == << message >>
TimeoutAdviceYields(message) == << message >>

RECURSIVE Flatten(_)
Flatten(ss) == IF ss = << >> THEN << >> ELSE Head(ss) \o Flatten(Tail(ss))

\* AllMixin (l. 240-245): a frame of the base client goes through
\* AutoReconnect, then Replay, then TimeoutAdvice, then to the consumer
FromAutoReconnect(message) == AutoReconnectYields(message)
FromReplay(message) ==
    LET below == FromAutoReconnect(message)
    IN  Flatten([i \in 1..Len(below) |-> ReplayYields(below[i])])
FromTimeoutAdvice(message) ==
    LET below == FromReplay(message)
    IN  Flatten([i \in 1..Len(below) |-> TimeoutAdviceYields(below[i])])
\* the store_replay_id calls Replay launches for the frames it is given
StoreCallsFor(message) ==
    LET below == FromAutoReconnect(message)
    IN  Flatten([i \in 1..Len(below) |-> ReplayStoreCalls(below[i])])
\* self.timeout after TimeoutAdvice has seen the frames it is given
RECURSIVE TimeoutAfter(_, _)
TimeoutAfter(timeout, messages) ==
    IF messages = << >> THEN timeout
    ELSE TimeoutAfter(TimeoutAdviceTimeout(timeout, Head(messages)), Tail(messages))

\* ------------------------------------------------------------------- state
Ctx == {"caller", "stream"}

VARIABLES
    subchannels,  \* self._subchannels
    version,      \* self.version
    timeout,      \* self.timeout
    pc,           \* where each coroutine of Ctx is suspended
    outcome,      \* how its last operation ended: "", "returned" or the exception
    call,         \* the caller's operation: op, channel, result
    nops,         \* operations the caller has started
    baseFrames,   \* frames the base client's messages() has produced
    delivered,    \* frames the consumer of messages() has received
    tasks,        \* bag of the tasks made with loop.create_task
    storeCalls,   \* the store_replay_id calls launched, in order
    launched,     \* per channel, resubscription tasks made
    issued,       \* per channel, resubscription tasks that called subscribe
    hs,           \* per coroutine, its handshake() calls
    sub,          \* the caller's subscribe(): inner calls, sleeps, last answer
    pl            \* get_subscribe_payload: its inputs and its result

vars == << subchannels, version, timeout, pc, outcome, call, nops, baseFrames,
           delivered, tasks, storeCalls, launched, issued, hs, sub, pl >>

\* groups of variables an action leaves alone
streamVars == << baseFrames, delivered, storeCalls, timeout >>
callVars == << call, nops, sub >>
taskVars == << tasks, launched, issued >>

\* a task: tries, the calls of the inner subscribe() it has made; last, the
\* last answer it got; wait, the duration of its last sleep
StoreTask(c) ==
    [kind |-> "store", channel |-> c.channel, arg |-> Some(c), st |-> "pending",
     tries |-> 0, last |-> None, wait |-> None]
ResubTask(channel) ==
    [kind |-> "resub", channel |-> channel, arg |-> None, st |-> "pending",
     tries |-> 0, last |-> None, wait |-> None]
\* the Task object of a resubscription that has returned response
Done(t, response) == [ResubTask(t.channel) EXCEPT !.st = "done", !.last = Some(response)]
One(t) == SetToBag({t})

RECURSIVE SeqToBag(_)
SeqToBag(s) == IF s = << >> THEN EmptyBag ELSE One(Head(s)) (+) SeqToBag(Tail(s))

\* the bag of tasks for a bag of channels
ResubTasks(channels) ==
    [t \in {ResubTask(ch) : ch \in BagToSet(channels)} |-> channels[t.channel]]

NoCall == [op |-> "", channel |-> "", result |-> None]
\* calls: handshake() calls begun; of the last one: seen, the discovery answer;
\* was, self.version when it came; inner, calls of the inner handshake();
\* answer, what that returned; snapshot, self._subchannels then; made, the
\* bag of channels a resubscription task was made for
NoHs == [calls |-> 0, seen |-> None, was |-> None, inner |-> 0, answer |-> None,
         snapshot |-> None, made |-> EmptyBag]
\* tries: calls of the inner subscribe(); sleeps: asyncio.sleep calls; last: the
\* last answer; answers: every answer, in order; waits: the duration of each sleep
NoSub == [tries |-> 0, sleeps |-> 0, last |-> None, answers |-> << >>, waits |-> << >>]
NoPl == [pc |-> "idle", channel |-> "", inner |-> None, returned |-> None, payload |-> None]

InitVersion == "36.0"
InitTimeout == TrueDiv(120, 1)

\* everything but self._subchannels
InitRest ==
    /\ version = InitVersion
    /\ timeout = InitTimeout
    /\ pc = [c \in Ctx |-> IF c = "caller" THEN "idle" ELSE "ready"]
    /\ outcome = [c \in Ctx |-> ""]
    /\ call = NoCall
    /\ nops = 0
    /\ baseFrames = << >>
    /\ delivered = << >>
    /\ tasks = EmptyBag
    /\ storeCalls = << >>
    /\ launched = [ch \in Channels |-> 0]
    /\ issued = [ch \in Channels |-> 0]
    /\ hs = [c \in Ctx |-> NoHs]
    /\ sub = NoSub
    /\ pl = NoPl

\* the state after construction (AutoReconnectMixin.__init__, l. 148-151)
Init ==
    /\ subchannels = NoSet
    /\ InitRest

\* ends the operation of coroutine c: the caller gets the result or the
\* exception; an exception inside messages() ends the stream
Ends(c, how, result) ==
    /\ outcome' = [outcome EXCEPT ![c] = how]
    /\ IF c = "caller"
       THEN /\ pc' = [pc EXCEPT ![c] = "idle"]
            /\ call' = [call EXCEPT !.result = result]
       ELSE /\ pc' = [pc EXCEPT ![c] = IF how = "returned" THEN "awaiting" ELSE "raised"]
            /\ call' = call

\* -------------------------------------------------------------- messages()
\* the consumer asks for the next frame (async for ... in client.messages())
ConsumerNext ==
    /\ pc["stream"] = "ready"
    /\ pc' = [pc EXCEPT !["stream"] = "awaiting"]
    /\ UNCHANGED << subchannels, version, outcome, hs, pl >>
    /\ UNCHANGED << streamVars, callVars, taskVars >>

\* AutoReconnectMixin.handshake is entered through AutoVersionMixin.handshake,
\* which first awaits self.get('/services/data/')
BeginHandshake(c) ==
    /\ pc' = [pc EXCEPT ![c] = "get"]
    /\ outcome' = [outcome EXCEPT ![c] = ""]
    /\ hs' = [hs EXCEPT ![c] = [NoHs EXCEPT !.calls = hs[c].calls + 1]]

\* a messages() whose reconnect handshake is not awaited: frames are pulled
\* and delivered while it is under way
BaseYieldsDuringHandshake(f, max) ==
    /\ pc["stream"] \in {"awaiting", "get", "handshake"}
    /\ nops + Len(baseFrames) < max
    /\ baseFrames' = Append(baseFrames, f)
    /\ LET stored == StoreCallsFor(f)
           out    == FromTimeoutAdvice(f)
       IN  /\ storeCalls' = storeCalls \o stored
           /\ tasks' = tasks (+) SeqToBag([i \in 1..Len(stored) |-> StoreTask(stored[i])])
           /\ timeout' = TimeoutAfter(timeout, FromReplay(f))
           /\ delivered' = delivered \o out
           /\ IF AutoReconnectAsked(f)
              THEN BeginHandshake("stream")
              ELSE /\ pc' = [pc EXCEPT !["stream"] =
                                IF pc["stream"] # "awaiting" THEN pc["stream"]
                                ELSE IF out = << >> THEN "awaiting" ELSE "ready"]
                   /\ UNCHANGED << outcome, hs >>
    /\ UNCHANGED << subchannels, version, launched, issued, callVars, pl >>

\* the base client produces frame f; the layers run up to the next await
BaseYields(f, max) ==
    /\ pc["stream"] = "awaiting"
    /\ nops + Len(baseFrames) < max
    /\ baseFrames' = Append(baseFrames, f)
    /\ LET stored == StoreCallsFor(f)
           out    == FromTimeoutAdvice(f)
       IN  /\ storeCalls' = storeCalls \o stored
           /\ tasks' = tasks (+) SeqToBag([i \in 1..Len(stored) |-> StoreTask(stored[i])])
           /\ timeout' = TimeoutAfter(timeout, FromReplay(f))
           /\ delivered' = delivered \o out
           /\ IF AutoReconnectAsked(f)
              THEN BeginHandshake("stream")
              ELSE /\ pc' = [pc EXCEPT !["stream"] =
                                IF out = << >> THEN "awaiting" ELSE "ready"]
                   /\ UNCHANGED << outcome, hs >>
    /\ UNCHANGED << subchannels, version, launched, issued, callVars, pl >>

\* ------------------------------------------------------------- handshake()
\* answers of the discovery resource
Versions2 == JList(<< JDict(Some("38.0")), JDict(Some("42.0")) >>)
AllDiscovery ==
    { Versions2,
      JList(<< JDict(Some("42.0")), JDict(Some("38.0")) >>),
      JList(<< JDict(Some("40.0")) >>),
      JList(<< JDict(Some("38.0")), JDict(None) >>),
      JList(<< JDict(None), JDict(Some("42.0")) >>),
      JList(<< >>),
      JList(<< JDict(Some("38.0")), JStr("42.0") >>),
      JList(<< JNull >>),
      JDict(None), JNull, JStr(""), JStr("42.0"), JNum }
Discovery == { Versions2, JNull }

\* answers of the base client's handshake()
Connected == << Result(TRUE, None) >>
AllHandshakeResponses == { Connected, << Result(FALSE, None) >> }
HandshakeResponses == { Connected }

\* self.get returns data: the try statement, then super().handshake()
GetReturns(c, data) ==
    /\ pc[c] = "get"
    /\ IF AutoVersionError(data) # ""
       THEN /\ Ends(c, AutoVersionError(data), None)
            /\ hs' = [hs EXCEPT ![c].seen = Some(data), ![c].was = Some(version)]
            /\ UNCHANGED version
       ELSE /\ version' = AutoVersionVersion(version, data)
            /\ pc' = [pc EXCEPT ![c] = "handshake"]
            /\ hs' = [hs EXCEPT ![c].seen = Some(data), ![c].was = Some(version),
                                 ![c].inner = @ + 1]
            /\ UNCHANGED << outcome, call >>
    /\ UNCHANGED << subchannels, nops, sub, pl >>
    /\ UNCHANGED << streamVars, taskVars >>

\* self.get raises: nothing catches it
GetRaises(c) ==
    /\ pc[c] = "get"
    /\ Ends(c, "InnerError", None)
    /\ UNCHANGED << subchannels, version, nops, sub, hs, pl >>
    /\ UNCHANGED << streamVars, taskVars >>

\* the base client's handshake() returns response: one task per channel of
\* self._subchannels, then return response (l. 203-207)
HandshakeReturns(c, response) ==
    /\ pc[c] = "handshake"
    /\ IF AutoReconnectHandshakeRaises(subchannels)
       THEN /\ Ends(c, "TypeError", None)
            /\ hs' = [hs EXCEPT ![c].answer = Some(response)]
            /\ UNCHANGED taskVars
       ELSE LET made == AutoReconnectResubscribed(subchannels)
            IN  /\ tasks' = tasks (+) ResubTasks(made)
                /\ launched' = [ch \in Channels |->
                                  launched[ch] + IF BagIn(ch, made) THEN made[ch] ELSE 0]
                /\ hs' = [hs EXCEPT ![c].answer = Some(response),
                                     ![c].snapshot = subchannels, ![c].made = made]
                /\ Ends(c, "returned", response)
                /\ UNCHANGED issued
    /\ UNCHANGED << subchannels, version, nops, sub, pl, streamVars >>

\* the resubscription tasks made before the base client's handshake() is
\* awaited: they are on the loop when it raises
HandshakeRaisesAfterLaunch(c) ==
    /\ pc[c] = "handshake"
    /\ Ends(c, "InnerError", None)
    /\ LET made == IF subchannels = NoSet THEN EmptyBag
                   ELSE AutoReconnectResubscribed(subchannels)
       IN  /\ tasks' = tasks (+) ResubTasks(made)
           /\ launched' = [ch \in Channels |->
                             launched[ch] + IF BagIn(ch, made) THEN made[ch] ELSE 0]
    /\ UNCHANGED << subchannels, version, nops, sub, hs, pl, issued >>
    /\ UNCHANGED streamVars

\* the base client's handshake() raises: nothing catches it
HandshakeRaises(c) ==
    /\ pc[c] = "handshake"
    /\ Ends(c, "InnerError", None)
    /\ UNCHANGED << subchannels, version, nops, sub, hs, pl >>
    /\ UNCHANGED << streamVars, taskVars >>

\* ------------------------------------------------- the caller's operations
Begin(op, channel) ==
    /\ pc["caller"] = "idle"
    /\ nops + Len(baseFrames) < MaxEvents
    /\ nops' = nops + 1
    /\ call' = [op |-> op, channel |-> channel, result |-> None]

\* the operation ended before its first await
Ended(how) ==
    /\ outcome' = [outcome EXCEPT !["caller"] = how]
    /\ pc' = pc

Suspend(at) ==
    /\ outcome' = [outcome EXCEPT !["caller"] = ""]
    /\ pc' = [pc EXCEPT !["caller"] = at]

Return(result) == Ends("caller", "returned", result)

\* start() (l. 153-158)
CallStart ==
    /\ Begin("start", "")
    /\ subchannels' = SetOf({})
    /\ Suspend("start")
    /\ UNCHANGED << version, sub, hs, pl, streamVars, taskVars >>

StartReturns ==
    /\ pc["caller"] = "start"
    /\ Return(None)
    /\ UNCHANGED << subchannels, version, nops, sub, hs, pl, streamVars, taskVars >>

\* stop() (l. 190-195)
CallStop ==
    /\ Begin("stop", "")
    /\ Suspend("stop")
    /\ UNCHANGED << subchannels, version, sub, hs, pl, streamVars, taskVars >>

StopReturns ==
    /\ pc["caller"] = "stop"
    /\ subchannels' = NoSet
    /\ Return(None)
    /\ UNCHANGED << version, nops, sub, hs, pl, streamVars, taskVars >>

\* handshake() called from outside
CallHandshake ==
    /\ Begin("handshake", "")
    /\ BeginHandshake("caller")
    /\ UNCHANGED << subchannels, version, sub, pl, streamVars, taskVars >>

\* answers of the base client's subscribe() and unsubscribe()
Subscribed == << Result(TRUE, None) >>
Busy == << Result(FALSE, Sfdc(Some("SERVER_UNAVAILABLE - limit"))) >>
Denied == << Result(FALSE, Sfdc(Some("DENIED"))) >>
AllSubscribeResponses ==
    { << >>, Subscribed, Busy, Denied,
      << Result(FALSE, Sfdc(Some("SERVER_UNAVAILABLE"))) >>,
      << Result(FALSE, Sfdc(Some("SERVER_UNAVAILABL"))) >>,
      << Result(FALSE, Sfdc(Some("DENIED: SERVER_UNAVAILABLE"))) >>,
      << Result(FALSE, Sfdc(None)) >>,
      << Result(FALSE, Some([sfdc |-> None])) >>,
      << Result(FALSE, None) >>,
      << Result(TRUE, Sfdc(Some("SERVER_UNAVAILABLE"))) >>,
      << Result(TRUE, None), Result(FALSE, Sfdc(Some("SERVER_UNAVAILABLE"))) >>,
      << Result(FALSE, Sfdc(Some("DENIED"))), Result(FALSE, Sfdc(Some("SERVER_UNAVAILABLE"))) >>,
      << Result(FALSE, Sfdc(Some("SERVER_UNAVAILABLE"))), Result(TRUE, None) >> }
SubscribeResponses == { Subscribed, Busy, Denied }

\* the default of retry_sub_duration, in seconds (l. 217)
retry_sub_duration == TrueDiv(1, 10)

\* a sleep that doubles with every call made
ReSubscribeSleepBackoff(tries) == TrueDiv(2 ^ tries, 10)

\* the argument of asyncio.sleep after the tries-th call (l. 237)
ReSubscribeSleep(tries) == retry_sub_duration

\* subscribe(channel) (l. 160-165), up to the first call of the base
\* client's subscribe() inside ReSubscribeMixin.subscribe (l. 225-226)
CallSubscribe(channel) ==
    /\ Begin("subscribe", channel)
    /\ IF AutoReconnectSubscribeError(subchannels) # ""
       THEN /\ Ended(AutoReconnectSubscribeError(subchannels))
            /\ UNCHANGED << subchannels, sub >>
       ELSE /\ subchannels' = SetAdd(subchannels, channel)
            /\ sub' = [NoSub EXCEPT !.tries = 1]
            /\ Suspend("subscribe")
    /\ UNCHANGED << version, hs, pl, streamVars, taskVars >>

\* the base client's subscribe() returns response (l. 228-237)
SubscribeReturns(response) ==
    /\ pc["caller"] = "subscribe"
    /\ sub.tries < MaxTries \/ ~ReSubscribeRetries(response)
    /\ IF ReSubscribeRetries(response)
       THEN /\ pc' = [pc EXCEPT !["caller"] = "sleep"]
            /\ sub' = [sub EXCEPT !.last = Some(response), !.sleeps = @ + 1,
                                   !.answers = Append(@, response),
                                   !.waits = Append(@, ReSubscribeSleep(sub.tries))]
            /\ UNCHANGED << outcome, call >>
       ELSE /\ Return(response)
            /\ sub' = [sub EXCEPT !.last = Some(response),
                                   !.answers = Append(@, response)]
    /\ UNCHANGED << subchannels, version, nops, hs, pl, streamVars, taskVars >>

\* a subscribe() that takes the channel out again when the inner call raises
SubscribeRaisesRollsBack ==
    /\ pc["caller"] = "subscribe"
    /\ subchannels' = SetRemove(subchannels, call.channel)
    /\ Ends("caller", "InnerError", None)
    /\ UNCHANGED << version, nops, sub, hs, pl, streamVars, taskVars >>

\* the base client's subscribe() raises: neither layer catches it
SubscribeRaises ==
    /\ pc["caller"] = "subscribe"
    /\ Ends("caller", "InnerError", None)
    /\ UNCHANGED << subchannels, version, nops, sub, hs, pl, streamVars, taskVars >>

\* asyncio.sleep(self.retry_sub_duration) is over: the loop calls again
SubscribeWakes ==
    /\ pc["caller"] = "sleep"
    /\ pc' = [pc EXCEPT !["caller"] = "subscribe"]
    /\ sub' = [sub EXCEPT !.tries = @ + 1]
    /\ UNCHANGED << subchannels, version, outcome, call, nops, hs, pl >>
    /\ UNCHANGED << streamVars, taskVars >>

\* an unsubscribe(channel) that also drops the tasks of the channel which
\* have not run yet
CallUnsubscribeCancels(channel) ==
    /\ Begin("unsubscribe", channel)
    /\ IF AutoReconnectUnsubscribeError(subchannels, channel) # ""
       THEN /\ Ended(AutoReconnectUnsubscribeError(subchannels, channel))
            /\ UNCHANGED << subchannels, tasks >>
       ELSE /\ subchannels' = SetRemove(subchannels, channel)
            /\ tasks' = tasks (-) ResubTasks(SetToBag({channel}))
            /\ Suspend("unsubscribe")
    /\ UNCHANGED << version, sub, hs, pl, streamVars, launched, issued >>

\* unsubscribe(channel) (l. 183-188)
CallUnsubscribe(channel) ==
    /\ Begin("unsubscribe", channel)
    /\ IF AutoReconnectUnsubscribeError(subchannels, channel) # ""
       THEN /\ Ended(AutoReconnectUnsubscribeError(subchannels, channel))
            /\ UNCHANGED subchannels
       ELSE /\ subchannels' = SetRemove(subchannels, channel)
            /\ Suspend("unsubscribe")
    /\ UNCHANGED << version, sub, hs, pl, streamVars, taskVars >>

UnsubscribeReturns(response) ==
    /\ pc["caller"] = "unsubscribe"
    /\ Return(response)
    /\ UNCHANGED << subchannels, version, nops, sub, hs, pl, streamVars, taskVars >>

\* the base client's unsubscribe() raises: nothing catches it
UnsubscribeRaises ==
    /\ pc["caller"] = "unsubscribe"
    /\ Ends("caller", "InnerError", None)
    /\ UNCHANGED << subchannels, version, nops, sub, hs, pl, streamVars, taskVars >>

\* ---------------------------------------------------- the background tasks
Replace(t, u) == (tasks (-) One(t)) (+) One(u)

\* the loop runs a store_replay_id task up to its first await
StoreStarts(t) ==
    /\ BagIn(t, tasks) /\ t.kind = "store" /\ t.st = "pending"
    /\ tasks' = Replace(t, [t EXCEPT !.st = "running"])
    /\ UNCHANGED << subchannels, version, pc, outcome, hs, pl, launched, issued >>
    /\ UNCHANGED << streamVars, callVars >>

\* store_replay_id returns: the task is over
StoreEnds(t) ==
    /\ BagIn(t, tasks) /\ t.kind = "store" /\ t.st = "running"
    /\ tasks' = tasks (-) One(t)
    /\ UNCHANGED << subchannels, version, pc, outcome, hs, pl, launched, issued >>
    /\ UNCHANGED << streamVars, callVars >>

\* the task object of a coroutine that raised: nobody awaits it, the
\* exception stays in it
Failed(t) == [t EXCEPT !.st = "failed"]

\* store_replay_id awaited inside messages() instead of handed to the loop
StoreFailsAwaited(t) ==
    /\ BagIn(t, tasks) /\ t.kind = "store" /\ t.st = "running"
    /\ tasks' = Replace(t, Failed(t))
    /\ Ends("stream", "StoreError", None)
    /\ UNCHANGED << subchannels, version, hs, pl, launched, issued >>
    /\ UNCHANGED << streamVars, nops, sub >>

\* store_replay_id raises
StoreFails(t) ==
    /\ BagIn(t, tasks) /\ t.kind = "store" /\ t.st = "running"
    /\ tasks' = Replace(t, Failed(t))
    /\ UNCHANGED << subchannels, version, pc, outcome, hs, pl, launched, issued >>
    /\ UNCHANGED << streamVars, callVars >>

\* self._subchannels after a resubscription task has called subscribe through
\* self instead of super(): subscribe of AutoReconnectMixin adds the channel
AutoReconnectTaskSetViaSelf(subs, channel) ==
    IF subs = NoSet THEN subs ELSE SetAdd(subs, channel)

\* self._subchannels after a resubscription task has called
\* super().subscribe(channel), which starts below l. 164
AutoReconnectTaskSet(subs, channel) == subs

\* the loop runs a resubscription task: super().subscribe(channel) of
\* AutoReconnectMixin is ReSubscribeMixin.subscribe, up to its first call
\* of the base client's subscribe()
ResubStarts(t) ==
    /\ BagIn(t, tasks) /\ t.kind = "resub" /\ t.st = "pending"
    /\ tasks' = Replace(t, [t EXCEPT !.st = "subscribe", !.tries = 1])
    /\ issued' = [issued EXCEPT ![t.channel] = @ + 1]
    /\ subchannels' = AutoReconnectTaskSet(subchannels, t.channel)
    /\ UNCHANGED << version, pc, outcome, hs, pl, launched >>
    /\ UNCHANGED << streamVars, callVars >>

\* a resubscription that calls the base client's subscribe() directly
AutoReconnectTaskRetriesNever(response) == FALSE

\* does the task call subscribe again after response: super() in
\* AutoReconnectMixin.handshake is ReSubscribeMixin (l. 240-245)
AutoReconnectTaskRetries(response) == ReSubscribeRetries(response)

\* the base client's subscribe() returns response to a resubscription task
ResubReturns(t, response) ==
    /\ BagIn(t, tasks) /\ t.kind = "resub" /\ t.st = "subscribe"
    /\ t.tries < MaxTries \/ ~ReSubscribeRetries(response)
    /\ tasks' = IF AutoReconnectTaskRetries(response)
                THEN Replace(t, [t EXCEPT !.st = "sleep", !.last = Some(response),
                                          !.wait = Some(ReSubscribeSleep(t.tries))])
                ELSE Replace(t, Done(t, response))
    /\ UNCHANGED << subchannels, version, pc, outcome, hs, pl, launched, issued >>
    /\ UNCHANGED << streamVars, callVars >>

ResubWakes(t) ==
    /\ BagIn(t, tasks) /\ t.kind = "resub" /\ t.st = "sleep"
    /\ tasks' = Replace(t, [t EXCEPT !.st = "subscribe", !.tries = @ + 1])
    /\ UNCHANGED << subchannels, version, pc, outcome, hs, pl, launched, issued >>
    /\ UNCHANGED << streamVars, callVars >>

\* the base client's subscribe() raises inside a resubscription task
ResubRaises(t) ==
    /\ BagIn(t, tasks) /\ t.kind = "resub" /\ t.st = "subscribe"
    /\ tasks' = Replace(t, Failed(t))
    /\ UNCHANGED << subchannels, version, pc, outcome, hs, pl, launched, issued >>
    /\ UNCHANGED << streamVars, callVars >>

\* ------------------------------------------------- get_subscribe_payload()
\* payloads of the layer below, and what get_last_replay_id returns
PayloadChannels == Channels \cup {"/event/C__e"}
InnerPayloads(channel) ==
    { Payload(channel, None),
      Payload(channel, Some(Ext(None, Some("x")))),
      Payload(channel, Some(Ext(Some([c \in {"/topic/A"} |-> 5]), None))),
      Payload(channel, Some(Ext(Some([c \in {"/topic/B"} |-> 6]), Some("x")))) }
Returned ==
    { Nothing, Member(NEW_EVENTS), Member(ALL_EVENTS),
      Cursor(0), Cursor(1), Cursor(1234), Cursor(-1), Cursor(-2) }

\* get_subscribe_payload(channel) awaits super().get_subscribe_payload
PayloadCalled(channel) ==
    /\ pl.pc = "idle"
    /\ pl' = [NoPl EXCEPT !.pc = "super", !.channel = channel]
    /\ UNCHANGED << subchannels, version, pc, outcome, hs >>
    /\ UNCHANGED << streamVars, callVars, taskVars >>

\* it returns payload: await self.get_last_replay_id(channel)
PayloadSuperReturns(payload) ==
    /\ pl.pc = "super"
    /\ pl' = [pl EXCEPT !.pc = "get_last", !.inner = Some(payload)]
    /\ UNCHANGED << subchannels, version, pc, outcome, hs >>
    /\ UNCHANGED << streamVars, callVars, taskVars >>

\* it returns returned: the rest of get_subscribe_payload (l. 68-81)
PayloadGetLastReturns(returned) ==
    /\ pl.pc = "get_last"
    /\ pl' = [pl EXCEPT !.pc = "idle", !.returned = Some(returned),
                        !.payload = Some(ReplayPayload(pl.inner[1], pl.channel, returned))]
    /\ UNCHANGED << subchannels, version, pc, outcome, hs >>
    /\ UNCHANGED << streamVars, callVars, taskVars >>

\* ---------------------------------------------------------- specifications
Frames == { ConnectOk, ConnectUnknown }

HandshakeSteps(c, discovery, responses) ==
    \/ \E data \in discovery : GetReturns(c, data)
    \/ GetRaises(c)
    \/ \E response \in responses : HandshakeReturns(c, response)
    \/ HandshakeRaises(c)

CallerSteps(responses) ==
    \/ CallStart
    \/ StartReturns
    \/ CallStop
    \/ StopReturns
    \/ CallHandshake
    \/ \E channel \in Channels : CallSubscribe(channel)
    \/ \E response \in responses : SubscribeReturns(response)
    \/ SubscribeWakes
    \/ \E channel \in Channels : CallUnsubscribe(channel)
    \/ \E response \in responses : UnsubscribeReturns(response)
    \/ SubscribeRaises
    \/ UnsubscribeRaises

StreamSteps(frames, max) ==
    \/ ConsumerNext
    \/ \E f \in frames : BaseYields(f, max)

StoreSteps ==
    \/ \E t \in BagToSet(tasks) : StoreStarts(t)
    \/ \E t \in BagToSet(tasks) : StoreEnds(t)

ResubSteps(responses) ==
    \/ \E t \in BagToSet(tasks) : ResubStarts(t)
    \/ \E t \in BagToSet(tasks), response \in responses : ResubReturns(t, response)
    \/ \E t \in BagToSet(tasks) : ResubWakes(t)

\* answers of the base client to the subscribe() of a task
TaskResponses == { Subscribed, Busy }

\* the composed client: caller, consumer and tasks on one loop
Next ==
    \/ CallerSteps(SubscribeResponses)
    \/ HandshakeSteps("caller", Discovery, HandshakeResponses)
    \/ HandshakeSteps("stream", Discovery, HandshakeResponses)
    \/ StreamSteps(Frames, MaxEvents)
    \/ ResubSteps(TaskResponses)

Spec == Init /\ [][Next]_vars

\* the message stream of a client whose caller is idle, over every frame
Started == \E S \in SUBSET Channels : subchannels = SetOf(S)
InitStream ==
    /\ Started
    /\ InitRest
NextStream ==
    \/ StreamSteps(AllFrames, MaxFrames)
    \/ HandshakeSteps("stream", Discovery, HandshakeResponses)
    \/ StoreSteps
SpecStream == InitStream /\ [][NextStream]_vars

\* the message stream and the tasks it leaves on the loop, which may raise
TaskFrames == { EventA, ConnectUnknown }
NextTasks ==
    \/ StreamSteps(TaskFrames, MaxFrames)
    \/ HandshakeSteps("stream", {Versions2}, HandshakeResponses)
    \/ StoreSteps
    \/ \E t \in BagToSet(tasks) : StoreFails(t)
    \/ ResubSteps(SubscribeResponses)
    \/ \E t \in BagToSet(tasks) : ResubRaises(t)
\* after start() and subscribe("/topic/A")
InitTasks ==
    /\ subchannels = SetOf({"/topic/A"})
    /\ InitRest
SpecTasks == InitTasks /\ [][NextTasks]_vars

\* the loop always runs a task that is ready to start
FairSpec == Spec /\ WF_vars(\E t \in BagToSet(tasks) : ResubStarts(t))

\* handshake() alone, over every answer of the discovery resource
NextVersion ==
    \/ CallStart
    \/ StartReturns
    \/ CallHandshake
    \/ HandshakeSteps("caller", AllDiscovery, AllHandshakeResponses)
SpecVersion == Init /\ [][NextVersion]_vars

\* subscribe() alone, over every answer of the base client
NextSubscribe ==
    \/ CallStart
    \/ StartReturns
    \/ \E channel \in Channels : CallSubscribe(channel)
    \/ \E response \in AllSubscribeResponses : SubscribeReturns(response)
    \/ SubscribeWakes
SpecSubscribe == Init /\ [][NextSubscribe]_vars

\* get_subscribe_payload() alone
NextPayload ==
    \/ \E channel \in PayloadChannels : PayloadCalled(channel)
    \/ \E payload \in InnerPayloads(pl.channel) : PayloadSuperReturns(payload)
    \/ \E returned \in Returned : PayloadGetLastReturns(returned)
SpecPayload == Init /\ [][NextPayload]_vars

\* ------------------------------------------------------------------ claims
\* a session-invalidation frame: a meta channel and the error of that name
SessionInvalidation(f) ==
    /\ StartsWith(f.channel, "/meta/")
    /\ f.error = << "403::Unknown client" >>
Kept(f) == ~SessionInvalidation(f)
OnDataChannel(f) == ~StartsWith(f.channel, "/meta/")

\* C1: no session-invalidation frame is ever delivered to the consumer of
\* messages(), and the stream has called handshake() exactly once for each
\* such frame the base client produced.
C1_InvalidationSwallowed ==
    /\ \A i \in 1..Len(delivered) : ~SessionInvalidation(delivered[i])
    /\ hs["stream"].calls =
         Cardinality({i \in 1..Len(baseFrames) : SessionInvalidation(baseFrames[i])})

\* two invalidation frames, on two meta channels, then a delivered frame
C1_Witness ==
    /\ Len(baseFrames) = 3
    /\ baseFrames[1] = ConnectUnknown
    /\ baseFrames[2] = MetaUnknown
    /\ hs["stream"].calls = 2
    /\ delivered = << baseFrames[3] >>

\* C3: the frames delivered are the frames of the base client without the
\* session-invalidation frames: each other one once, unchanged, in order.
C3_DeliveredInOrder == delivered = SelectSeq(baseFrames, Kept)

\* a swallowed frame between two different delivered frames
C3_Witness ==
    /\ Len(baseFrames) = 3
    /\ SessionInvalidation(baseFrames[2])
    /\ Len(delivered) = 2
    /\ delivered[1] # delivered[2]
    /\ delivered[1].channel = "/topic/A"

\* C4: the store_replay_id calls launched are, in order, one for each
\* delivered frame of a data channel, with that frame's channel, replayId
\* and createdDate, and none for a meta channel; a frame is delivered
\* whatever the state of the tasks, which are all among those calls.
C4_OneStoreCallPerEvent ==
    LET events == SelectSeq(delivered, OnDataChannel)
    IN  /\ storeCalls = [i \in 1..Len(events) |->
                           [channel     |-> events[i].channel,
                            replayId    |-> events[i].event[1].replayId,
                            createdDate |-> events[i].event[1].createdDate]]
        /\ \A t \in BagToSet(tasks) : t.kind = "store" =>
              /\ \E i \in 1..Len(storeCalls) : t.arg = << storeCalls[i] >>
              /\ tasks[t] <= Cardinality({i \in 1..Len(storeCalls) : t.arg = << storeCalls[i] >>})

\* two events and a meta frame delivered while no store call has started
C4_Witness ==
    /\ Len(delivered) = 3
    /\ delivered[1] = EventA
    /\ delivered[2] = EventB
    /\ delivered[3] = ConnectOk
    /\ Len(storeCalls) = 2
    /\ storeCalls[1] = [channel |-> "/topic/A", replayId |-> 77, createdDate |-> "t1"]
    /\ \A i \in 1..2 : BagIn(StoreTask(storeCalls[i]), tasks)

\* C7: once TimeoutAdvice has passed on a /meta/connect frame that carries
\* advice.timeout = T >= 0, self.timeout is T / 1000.
C7_TimeoutIsAdvice ==
    delivered # << >> =>
        LET f == delivered[Len(delivered)]
        IN  (/\ f.channel = "/meta/connect"
             /\ f.advice # << >>
             /\ f.advice[1].timeout # << >>
             /\ f.advice[1].timeout[1] >= 0)
            => timeout.num * 1000 = f.advice[1].timeout[1] * timeout.den

\* C2: a handshake() that completes has made exactly one resubscription
\* task for each channel that was in self._subchannels when the inner
\* handshake returned; the task is made in the step that ends handshake(),
\* which does not wait for it; and again and again every task made so far
\* has called the inner subscribe, whether or not the consumer reads on.
C2_Resubscription ==
    /\ [](\A c \in Ctx : hs[c].snapshot # << >> =>
             hs[c].made = SetToBag(hs[c].snapshot[1]))
    /\ [](\A ch \in Channels :
             launched[ch] - issued[ch] =
               IF BagIn(ResubTask(ch), tasks) THEN tasks[ResubTask(ch)] ELSE 0)
    /\ [][\A ch \in Channels : launched'[ch] # launched[ch] =>
             /\ launched'[ch] = launched[ch] + 1
             /\ issued'[ch] = issued[ch]
             /\ \E c \in Ctx : /\ pc[c] = "handshake"
                               /\ pc'[c] \in {"idle", "awaiting"}
                               /\ outcome'[c] = "returned"
                               /\ ch \in subchannels[1]]_vars
    /\ []<>(\A ch \in Channels : issued[ch] = launched[ch])

\* the caller's handshake() has returned with two channels subscribed, the
\* consumer has read nothing, and both resubscriptions have called subscribe
C2_Witness ==
    /\ call.op = "handshake"
    /\ outcome["caller"] = "returned"
    /\ hs["caller"].snapshot = << Channels >>
    /\ baseFrames = << >>
    /\ \A ch \in Channels : launched[ch] = 1 /\ issued[ch] = 1

\* C5: get_subscribe_payload puts in ext.replay[channel] the value -1 when
\* get_last_replay_id returned nothing or NEW_EVENTS, -2 when it returned
\* ALL_EVENTS, and c when it returned the cursor c >= 0.
C5_ReplayValueSent ==
    pl.payload # << >> =>
        LET r == pl.returned[1]
            v == pl.payload[1].ext[1].replay[1][pl.channel]
        IN  /\ r.kind = "None" => v = -1
            /\ (r.kind = "ReplayType" /\ r.value = -1) => v = -1
            /\ (r.kind = "ReplayType" /\ r.value = -2) => v = -2
            /\ (r.kind = "int" /\ r.value >= 0) => v = r.value

\* the retryable answers: not empty, first result unsuccessful, and its
\* ext.sfdc.failureReason begins with SERVER_UNAVAILABLE
Retryable(response) ==
    /\ response # << >>
    /\ response[1].successful = FALSE
    /\ response[1].ext # << >>
    /\ response[1].ext[1].sfdc # << >>
    /\ response[1].ext[1].sfdc[1].failureReason # << >>
    /\ StartsWith(response[1].ext[1].sfdc[1].failureReason[1], "SERVER_UNAVAILABLE")

\* C6: subscribe() of ReSubscribe waits and calls the inner subscribe again
\* exactly when the last answer is retryable; otherwise it returns that
\* answer unchanged, having waited only after retryable answers.
C6_RetryIffBusy ==
    /\ pc["caller"] = "sleep" => Retryable(sub.last[1])
    /\ pc["caller"] = "subscribe" =>
          /\ sub.tries = sub.sleeps + 1
          /\ sub.last # << >> => Retryable(sub.last[1])
    /\ (call.op = "subscribe" /\ outcome["caller"] = "returned") =>
          /\ ~Retryable(sub.last[1])
          /\ call.result = sub.last[1]
          /\ sub.tries = sub.sleeps + 1

\* returned at once an answer whose second result alone is server-busy
C6_Witness ==
    /\ call.op = "subscribe"
    /\ outcome["caller"] = "returned"
    /\ sub.tries = 1 /\ sub.sleeps = 0
    /\ call.result = << Result(TRUE, None), Result(FALSE, Sfdc(Some("SERVER_UNAVAILABLE"))) >>

\* a non-empty sequence of version descriptors
Descriptors(data) ==
    /\ data.kind = "list"
    /\ Len(data.items) > 0
    /\ \A i \in 1..Len(data.items) :
          data.items[i].kind = "dict" /\ data.items[i].version # << >>

\* C8: given a non-empty sequence of version descriptors, handshake() of
\* AutoVersion sets self.version to the version of the last one, calls the
\* inner handshake() once and returns what it returned.
C8_LastVersionAdopted ==
    LET h == hs["caller"]
    IN  (h.seen # << >> /\ Descriptors(h.seen[1])) =>
          /\ version = h.seen[1].items[Len(h.seen[1].items)].version[1]
          /\ h.inner = 1
          /\ (call.op = "handshake" /\ outcome["caller"] = "returned") =>
                call.result = h.answer[1]

\* the last descriptor is neither the first nor the greatest
C8_Witness ==
    /\ hs["caller"].seen = << JList(<< JDict(<< "42.0" >>), JDict(<< "38.0" >>) >>) >>
    /\ version = "38.0"
    /\ call.op = "handshake"
    /\ outcome["caller"] = "returned"
    /\ call.result = << Result(FALSE, << >>) >>

\* an empty or malformed discovery answer: not a sequence, an empty one, or
\* one whose last entry is no descriptor with a version
Malformed(data) ==
    \/ data.kind # "list"
    \/ Len(data.items) = 0
    \/ data.items[Len(data.items)].kind # "dict"
    \/ data.items[Len(data.items)].version = << >>

\* C9: after an empty or malformed discovery answer, handshake() of
\* AutoVersion has raised nothing, has left self.version as it was and has
\* called the inner handshake().
C9_DiscoveryFailSoft ==
    LET h == hs["caller"]
    IN  (h.seen # << >> /\ Malformed(h.seen[1])) =>
          /\ h.inner = 1
          /\ version = h.was[1]

\* C10: unsubscribe(channel) on a started client whose set does not hold
\* channel raises nothing from the bookkeeping of AutoReconnect.
C10_UnsubscribeAbsentIsQuiet ==
    ~(/\ call.op = "unsubscribe"
      /\ subchannels # << >>
      /\ call.channel \notin subchannels[1]
      /\ outcome["caller"] = "KeyError")

\* the tasks of bag b that ended with an exception
Failures(b, kind) ==
    BagCardinality([t \in {x \in BagToSet(b) : x.kind = kind /\ x.st = "failed"} |-> b[t]])

\* C11: a background task that raises is never propagated: the step in
\* which a store or resubscription task fails leaves the stream, the frames
\* pulled and delivered, the handshake records and every outcome as they
\* were, and no coroutine ever ends with a task's exception.
C11_TaskFailureContained ==
    /\ [](\A c \in Ctx : outcome[c] \in {"", "returned", "InnerError", "TypeError"})
    /\ [][ (\E kind \in {"store", "resub"} : Failures(tasks', kind) > Failures(tasks, kind))
            => UNCHANGED << pc, outcome, call, baseFrames, delivered, hs, launched,
                            issued, subchannels, version, timeout, storeCalls >> ]_vars

\* a store task and a resubscription task have failed, the reconnect
\* handshake that made the latter has returned, the stream goes on
C11_Witness ==
    /\ Failures(tasks, "store") > 0
    /\ Failures(tasks, "resub") > 0
    /\ hs["stream"].answer # None
    /\ outcome["stream"] = "returned"
    /\ Len(delivered) = 2
    /\ pc["stream"] = "ready"

\* C12: a session invalidation is recovered transparently: the reconnect
\* handshake surfaces no error to the consumer of messages() and does not
\* end the stream. The exceptions the base client itself raises in get() or
\* handshake() are set aside: the statement here is about the layers' code.
C12_ReconnectTransparent ==
    /\ outcome["stream"] \in {"", "returned", "InnerError"}
    /\ pc["stream"] = "raised" => outcome["stream"] = "InnerError"

\* the caller begins operation op in this step
Begins(op) == nops' = nops + 1 /\ call'.op = op

\* C13: between start() and stop() the subscription set is the set of the
\* channels subscribe() was called with and unsubscribe() was not called
\* with later: start() makes it empty, subscribe(c) adds c, unsubscribe(c)
\* takes c out, and no other step (a handshake, from the caller or from the
\* stream, or a resubscription task) changes it.
C13_SetFollowsCalls ==
    [][ subchannels # NoSet =>
          /\ Begins("start") => subchannels' = SetOf({})
          /\ Begins("subscribe") =>
                subchannels' = SetOf(subchannels[1] \cup {call'.channel})
          /\ Begins("unsubscribe") =>
                subchannels' = SetOf(subchannels[1] \ {call'.channel})
          /\ Begins("handshake") \/ Begins("stop") => subchannels' = subchannels
          /\ nops' = nops /\ pc["caller"] # "stop" => subchannels' = subchannels ]_vars

\* subscribe, a handshake whose resubscription has been issued, then a
\* second subscribe: the set holds the two channels
C13_Witness ==
    /\ subchannels = SetOf(Channels)
    /\ hs["caller"].snapshot = SetOf({"/topic/A"})
    /\ issued["/topic/A"] = 1
    /\ launched["/topic/B"] = 0
    /\ call.op = "subscribe" /\ call.channel = "/topic/B"

\* C14: stop() of a started client leaves the subscription set cleared, that
\* is an empty set, on which a later handshake(), subscribe() or
\* unsubscribe() works as on the set of a client just started.
C14_StopLeavesEmptySet ==
    [][ pc["caller"] = "stop" /\ pc'["caller"] = "idle" /\ subchannels # NoSet
          => subchannels' = SetOf({}) ]_vars

\* the busy answers among the answers of one subscribe() call
BusyAnswers == {i \in 1..Len(sub.answers) : Retryable(sub.answers[i])}

C16_HandshakeOrder ==
    /\ [](\A c \in Ctx :
            /\ pc[c] = "get" =>
                  /\ hs[c].seen = None /\ hs[c].inner = 0
                  /\ hs[c].answer = None /\ hs[c].made = EmptyBag
            /\ pc[c] = "handshake" =>
                  /\ hs[c].seen # None /\ hs[c].inner = 1
                  /\ hs[c].answer = None /\ hs[c].made = EmptyBag)
    /\ [](\A ch \in Channels : issued[ch] <= launched[ch])
    /\ [][ /\ version' # version =>
               \E c \in Ctx : pc[c] = "get" /\ pc'[c] = "handshake"
           /\ launched' # launched =>
               \E c \in Ctx : /\ pc[c] = "handshake" /\ outcome'[c] = "returned"
                              /\ hs'[c].answer # None
           /\ \A c \in Ctx :
                 pc[c] = "handshake" /\ outcome'[c] \notin {"", "returned"} =>
                     launched' = launched /\ tasks' = tasks ]_vars

\* the version was adopted, then the inner handshake raised: a subscribed
\* channel, and no task for it
C16_Witness ==
    /\ call.op = "handshake" /\ outcome["caller"] = "InnerError"
    /\ hs["caller"].inner = 1
    /\ hs["caller"].was = Some(InitVersion) /\ version = "42.0"
    /\ subchannels = SetOf({"/topic/A"})
    /\ launched["/topic/A"] = 0 /\ tasks = EmptyBag

\* the resubscription tasks of channel ch that have not run yet
Pending(ch) == IF BagIn(ResubTask(ch), tasks) THEN tasks[ResubTask(ch)] ELSE 0

\* C17: a handshake resubscribes the channels of the set as it is when the
\* inner handshake returns, one task each: the tasks made are one per
\* channel of that snapshot and for no other channel; a step that changes
\* the set (start, subscribe, unsubscribe, stop) leaves every task as it is;
\* and a task made stays until it has called subscribe, whether or not its
\* channel is still in the set.
C17_SnapshotResubscribed ==
    /\ [](\A c \in Ctx : hs[c].snapshot # None =>
            /\ BagToSet(hs[c].made) = hs[c].snapshot[1]
            /\ \A ch \in hs[c].snapshot[1] : hs[c].made[ch] = 1)
    /\ [](\A ch \in Channels : launched[ch] = issued[ch] + Pending(ch))
    /\ [][ subchannels' # subchannels =>
              tasks' = tasks /\ launched' = launched /\ issued' = issued ]_vars

\* a handshake with "/topic/A" subscribed, then unsubscribe("/topic/A")
\* returned: the task is still on the loop, its channel is not in the set
C17_Witness ==
    /\ hs["caller"].snapshot = SetOf({"/topic/A"})
    /\ Pending("/topic/A") = 1
    /\ call.op = "unsubscribe" /\ call.channel = "/topic/A"
    /\ outcome["caller"] = "returned"
    /\ subchannels = SetOf({})

\* the caller's call of op has passed the bookkeeping of the layer
Past(op) ==
    /\ call.op = op
    /\ pc["caller"] \in {"subscribe", "sleep", "unsubscribe"}
         \/ outcome["caller"] \in {"returned", "InnerError"}

\* the caller's subscribe() has failed: an exception of the inner call, or
\* an answer that is not a success
SubscribeFailed ==
    /\ call.op = "subscribe"
    /\ \/ outcome["caller"] = "InnerError"
       \/ /\ outcome["caller"] = "returned"
          /\ call.result # << >>
          /\ ~call.result[1].successful

\* C18: the bookkeeping comes before the inner call and is never undone:
\* from the inner call of subscribe(c) on, and whatever its end (an answer,
\* a refusal, an exception), c is in the set; from the inner call of
\* unsubscribe(c) on, and whatever its end, c is not; and a handshake that
\* returns after a failed subscribe(c) makes a resubscription task for c.
C18_BookkeepingFirst ==
    /\ [](Past("subscribe") =>
            subchannels # NoSet /\ call.channel \in subchannels[1])
    /\ [](Past("unsubscribe") =>
            subchannels # NoSet /\ call.channel \notin subchannels[1])
    /\ [][ SubscribeFailed /\ call' = call /\ launched' # launched =>
              launched'[call.channel] = launched[call.channel] + 1 ]_vars

\* the inner subscribe raised; the reconnect handshake that followed has
\* made a task for the channel
C18_Witness ==
    /\ call.op = "subscribe" /\ outcome["caller"] = "InnerError"
    /\ subchannels = SetOf({call.channel})
    /\ hs["stream"].answer # None
    /\ hs["stream"].made = SetToBag({call.channel})

\* the stream is inside its reconnect handshake
Reconnecting == pc["stream"] \in {"get", "handshake"}

\* C19: the reconnect handshake is awaited inside the stream: from the
\* invalidation frame until the handshake has returned no frame is pulled
\* from the base client and none is delivered; the frame that started it is
\* the last one pulled; when the handshake returns the stream asks the base
\* client for the next frame, whatever tasks are on the loop.
C19_StreamWaitsForHandshake ==
    /\ [](Reconnecting =>
            /\ baseFrames # << >>
            /\ SessionInvalidation(baseFrames[Len(baseFrames)])
            /\ hs["stream"].answer = None)
    /\ [][ Reconnecting => baseFrames' = baseFrames /\ delivered' = delivered ]_vars
    /\ [][ pc["stream"] = "handshake" /\ outcome'["stream"] = "returned" =>
              pc'["stream"] = "awaiting" ]_vars

\* the frame after the invalidation frame is delivered while the task the
\* handshake made has not run
C19_Witness ==
    /\ baseFrames = << ConnectUnknown, EventA >>
    /\ delivered = << EventA >>
    /\ hs["stream"].made = SetToBag({"/topic/A"})
    /\ Pending("/topic/A") = 1

ResubTasksIn(b) == {t \in BagToSet(b) : t.kind = "resub"}

\* a resubscription task in its retry loop: it got a busy answer and sleeps
Sleeping(channel) ==
    [ResubTask(channel) EXCEPT !.st = "sleep", !.tries = 1, !.last = Some(Busy),
                               !.wait = Some(retry_sub_duration)]

\* C20: a resubscription goes through the retry loop of ReSubscribeMixin,
\* inside its task: after a busy answer the task sleeps retry_sub_duration
\* and calls again, and it ends only on an answer that is not busy; the
\* steps of a task leave the caller and the stream where they are.
C20_ResubscriptionRetries ==
    /\ [](\A t \in ResubTasksIn(tasks) :
            /\ t.st = "sleep" =>
                  /\ Retryable(t.last[1])
                  /\ t.wait = Some(retry_sub_duration)
            /\ t.st = "subscribe" /\ t.tries > 1 => Retryable(t.last[1])
            /\ t.st = "done" => ~Retryable(t.last[1]))
    /\ [][ ResubTasksIn(tasks') # ResubTasksIn(tasks) /\ launched' = launched =>
              UNCHANGED << pc, outcome, call, baseFrames, delivered, hs, version >> ]_vars

\* two reconnect handshakes in a row: two retry loops for "/topic/A" at the
\* same time, and the stream has delivered the next frame
C20_Witness ==
    /\ BagIn(Sleeping("/topic/A"), tasks)
    /\ tasks[Sleeping("/topic/A")] = 2
    /\ hs["stream"].calls = 2
    /\ delivered = << EventA >>
====
